---- MODULE Spec2Model ----
(***************************************************************************)
(* A model of canary_cli/main.py: one invocation of the command-line       *)
(* client.  A handler runs from "start"; it stops at every interaction     *)
(* with the outside (a call of API.request, a questionary prompt) and is   *)
(* resumed with the outcome.  Text is modelled as a sequence of tokens     *)
(* where the code looks inside it (remotes, env keys, paths) and as a      *)
(* string where it is only passed along.                                   *)
(***************************************************************************)
EXTENDS Integers, Sequences, FiniteSets

VARIABLES
    cmd,          \* the handler the dispatcher selected
    args,         \* the parsed command-line arguments (never changed)
    remoteNames,  \* the names the service lists for the collection the handler reads
    pc,           \* position inside the handler; "done" = returned, "exit" = sys.exit / uncaught exception
    loc,          \* the handler's local variables (parameters included)
    io,           \* the interaction the handler is blocked in
    ans,          \* what the last prompt returned
    ret,          \* what the last api call returned
    issued,       \* the logical api calls (get/create/update/delete/upload) made so far
    wire,         \* the network attempts (requests.request) made so far, with their responses
    lines,        \* the lines API.request printed
    prompts,      \* the prompts shown to the user
    launched,     \* typer.launch(url) was called
    err,          \* the error the handler itself reported before giving up ("" = none)
    exitCode,     \* the process's exit code; Running while it has none
    cliconfig,    \* Config.config: the configuration mapping in memory
    disk,         \* the configuration directory and file on disk
    runs          \* how many times the client has been started

vars == <<cmd, args, remoteNames, pc, loc, io, ans, ret, issued, wire, lines,
          prompts, launched, err, exitCode, cliconfig, disk, runs>>

----
\* Bounds of the model.

\* Longest validation-error list in a response body.
MaxErrs == 3
\* Most names the service lists for a collection.
MaxRemote == 2
\* Longest env key given to `env set`.
MaxKeyLen == 2
\* Most bindings in an imported env file.
MaxFileLines == 3
\* Most --redirects given to `page create`.
MaxRedirects == 2
\* Most starts of the client, one after the other, on the same configuration.
MaxRuns == 2

----
\* Values.

\* Python's None where a string is expected.
None == "None"
\* `not x` for a string or None.
Falsy(x) == x \in {None, ""}
\* `not x` for tokenised text or None (None and '' are both the empty sequence).
Empty(x) == x = <<>>

\* exitCode while the process has not ended.
Running == 0 - 1

NoIO == [kind |-> "none"]
NoData == [none |-> TRUE]

\* All sequences over S of length lo..hi.
SeqsOf(S, lo, hi) == UNION {[1..n -> S] : n \in lo..hi}

----
\* The remote service as the client sees it.

\* HTTP status codes a response may carry (both sides of the client's 400 threshold).
Statuses == {200, 399, 400, 422}

\* A FastAPI-style validation error list of k entries: {loc: [*, field], msg}.
ErrFields == <<"name", "remote", "branch", "key">>
ErrItem(i) == [loc |-> <<"body", ErrFields[((i - 1) % Len(ErrFields)) + 1]>>, msg |-> "field required"]
ErrList(k) == [i \in 1..k |-> ErrItem(i)]

\* The `detail` field of an error body: absent, a string, or a list of errors.
Details ==
    {[t |-> "absent"], [t |-> "str", s |-> "Not Found"]}
        \cup {[t |-> "list", items |-> ErrList(k)] : k \in 0..MaxErrs}

\* A decoded error body: `detail` and the number of other top-level keys.
ErrorBodies ==
    {[others |-> n, detail |-> d] : n \in 0..1, d \in Details}
        \ {[others |-> 0, detail |-> [t |-> "absent"]]}

\* The collections whose GET returns a list of named objects.
IsListPath(path) ==
    \/ path \in {<<"git-key">>, <<"project">>, <<"page">>}
    \/ Len(path) = 2 /\ path[1] = "env"

\* The decoded body of a successful response to `call`.
ServerBody(call) ==
    IF call.method = "GET" /\ IsListPath(call.path)
    THEN [kind |-> "list", items |-> remoteNames]
    ELSE [kind |-> "object", items |-> <<>>]

\* Every way the network may answer `call`.
Responses(call) ==
    {[kind |-> "exception"]}
        \cup {[kind |-> "http", status |-> s, body |-> ServerBody(call)] :
                s \in {x \in Statuses : x < 400}}
        \cup {[kind |-> "http", status |-> s, body |-> b] :
                s \in {x \in Statuses : x >= 400}, b \in ErrorBodies}

----
\* class API

\* len(r.json()) of an error body.
BodyLen(body) == body.others + (IF body.detail.t = "absent" THEN 0 ELSE 1)

\* bool(r.json()["detail"])
Truthy(detail) ==
    \/ detail.t = "str" /\ detail.s # ""
    \/ detail.t = "list" /\ Len(detail.items) > 0

\* The lines API.request prints for a response with status >= 400.  A missing
\* `detail` raises KeyError and a string iterated as a list raises TypeError
\* at its first character: nothing is printed and the exception ends the process.
ErrorLines(body) ==
    IF body.detail.t = "absent" THEN <<>>
    ELSE IF ~Truthy(body.detail) THEN <<>>
    ELSE IF BodyLen(body) > 1
         THEN IF body.detail.t = "list"
              THEN [i \in 1..Len(body.detail.items) |->
                      [kind |-> "field",
                       field |-> body.detail.items[i].loc[2],
                       msg |-> body.detail.items[i].msg]]
              ELSE <<>>
         ELSE <<[kind |-> "raw", detail |-> body.detail]>>

\* API.get / create / update / delete / upload: the call handed to API.request.
Get(path) == [method |-> "GET", path |-> path, data |-> NoData, raw |-> FALSE]
Create(path, data) == [method |-> "POST", path |-> path, data |-> data, raw |-> FALSE]
Update(path, data) == [method |-> "PUT", path |-> path, data |-> data, raw |-> FALSE]
Delete(path) == [method |-> "DELETE", path |-> path, data |-> NoData, raw |-> FALSE]
Upload(path, file) == [method |-> "POST", path |-> path, data |-> [file |-> file], raw |-> TRUE]

Req(call) == [kind |-> "request", call |-> call]

----
\* How a handler moves.

\* The handler goes on to `label` with locals l, blocked in `newio` (or not blocked, NoIO).
Goto(label, l, newio) ==
    /\ pc' = label
    /\ loc' = l
    /\ io' = newio
    /\ issued' = IF newio.kind = "request" THEN Append(issued, newio.call) ELSE issued
    /\ exitCode' = exitCode
    /\ UNCHANGED <<cliconfig, disk, runs, cmd, args, remoteNames, ans, ret, wire, lines, prompts, launched, err>>

\* sys.exit(code), or an uncaught exception (Python then exits with code 1).
Exit(code, l) ==
    /\ pc' = "exit"
    /\ loc' = l
    /\ io' = NoIO
    /\ exitCode' = code
    /\ UNCHANGED <<cliconfig, disk, runs, cmd, args, remoteNames, ans, ret, issued, wire, lines, prompts, launched, err>>

\* print(msg); sys.exit(1)
Fail(msg, l) ==
    /\ pc' = "exit"
    /\ loc' = l
    /\ io' = NoIO
    /\ exitCode' = 1
    /\ err' = msg
    /\ UNCHANGED <<cliconfig, disk, runs, cmd, args, remoteNames, ans, ret, issued, wire, lines, prompts, launched>>

\* The handler returns: the process ends with code 0.
Return(l) ==
    /\ pc' = "done"
    /\ loc' = l
    /\ io' = NoIO
    /\ exitCode' = 0
    /\ UNCHANGED <<cliconfig, disk, runs, cmd, args, remoteNames, ans, ret, issued, wire, lines, prompts, launched, err>>

\* API.request as it would be with a retry: a failed attempt is made again.
request_retry ==
    /\ io.kind = "request"
    /\ \E resp \in Responses(io.call) :
        /\ wire' = Append(wire, [call |-> io.call, resp |-> resp])
        /\ IF resp.kind = "exception" \/ resp.status >= 400
           THEN ret' = ret /\ io' = io
           ELSE ret' = resp.body /\ io' = NoIO
    /\ UNCHANGED <<cliconfig, disk, runs, cmd, args, remoteNames, pc, loc, ans, issued, lines, prompts, launched,
                   err, exitCode>>

\* API.request: one requests.request; an exception or a status >= 400 ends the
\* process with code 1, anything else hands r.json() back to the handler.
request ==
    /\ io.kind = "request"
    /\ \E resp \in Responses(io.call) :
        /\ wire' = Append(wire, [call |-> io.call, resp |-> resp])
        /\ IF resp.kind = "exception"
           THEN /\ lines' = Append(lines, [kind |-> "exception"])
                /\ pc' = "exit" /\ exitCode' = 1 /\ ret' = ret
           ELSE IF resp.status >= 400
           THEN /\ lines' = lines \o ErrorLines(resp.body)
                /\ pc' = "exit" /\ exitCode' = 1 /\ ret' = ret
           ELSE /\ lines' = lines
                /\ pc' = pc /\ exitCode' = exitCode /\ ret' = resp.body
    /\ io' = NoIO
    /\ UNCHANGED <<cliconfig, disk, runs, cmd, args, remoteNames, loc, ans, issued, prompts, launched, err>>

\* A questionary prompt.  onCancel is what the call site makes of Ctrl-C:
\* "exit" for unsafe_ask() inside try/except KeyboardInterrupt: sys.exit(1),
\* "none" for ask(), which swallows the interrupt and returns None.
Ask(message, answers, onCancel) ==
    [kind |-> "prompt", message |-> message, answers |-> answers, onCancel |-> onCancel]

\* The user answers the prompt.
PromptAnswer ==
    /\ io.kind = "prompt"
    /\ \E a \in io.answers : ans' = a
    /\ prompts' = Append(prompts, [message |-> io.message, cancelled |-> FALSE])
    /\ io' = NoIO
    /\ UNCHANGED <<cliconfig, disk, runs, cmd, args, remoteNames, pc, loc, ret, issued, wire, lines, launched, err, exitCode>>

\* The user interrupts the prompt.
PromptCancel ==
    /\ io.kind = "prompt"
    /\ prompts' = Append(prompts, [message |-> io.message, cancelled |-> TRUE])
    /\ io' = NoIO
    /\ IF io.onCancel = "exit"
       THEN pc' = "exit" /\ exitCode' = 1 /\ ans' = ans
       ELSE pc' = pc /\ exitCode' = exitCode /\ ans' = None
    /\ UNCHANGED <<cliconfig, disk, runs, cmd, args, remoteNames, loc, ret, issued, wire, lines, launched, err>>

\* questionary.select / rawselect raise ValueError when given no choices.
Select(label, l, message, choices, onCancel) ==
    IF choices = <<>>
    THEN Exit(1, l)
    ELSE Goto(label, l, Ask(message, {choices[i] : i \in 1..Len(choices)}, onCancel))

\* The handler is at `label`, not blocked.
At(name, label) == cmd = name /\ pc = label /\ io = NoIO

\* The tail shared by handlers that print the result of their last call and return.
Printed == pc = "print" /\ io = NoIO /\ Return(loc)

\* d[k] = v on a Python dict.
Put(d, k, v) == [f \in DOMAIN d \cup {k} |-> IF f = k THEN v ELSE d[f]]
EmptyDict == [f \in {} |-> f]

----
\* The local file system.

\* A checkout whose .git/config has [remote "origin"] with a url.
DirOrigin == <<"./app">>
\* A checkout whose .git/config has no [remote "origin"] section.
DirNoOrigin == <<"./bare">>
\* A directory without .git/config.
DirPlain == <<"./plain">>
\* A checkout whose [remote "origin"] section has no url option.
DirNoUrl == <<"./nourl">>
\* A directory given to `page deploy`.
DirDist == <<"./dist.tar">>
\* A regular file, and a path that does not exist.
FileSite == <<"./site.tar">>
Missing == <<"./missing">>

OriginUrl == <<"git@example.org:", "team", "/", "app", ".git">>

Dirs == {DirOrigin, DirNoOrigin, DirPlain, DirNoUrl, DirDist}
Files == {FileSite}

\* os.path.isdir / os.path.isfile
isdir(path) == path \in Dirs
isfile(path) == path \in Files

\* <path>/.git/config as configparser reads it: the sections, each with its options.
GitConfig(path) ==
    IF path = DirOrigin
    THEN [present |-> TRUE, sections |-> {"core", "remote \"origin\""}, url |-> OriginUrl, hasUrl |-> TRUE]
    ELSE IF path = DirNoOrigin
    THEN [present |-> TRUE, sections |-> {"core"}, url |-> <<>>, hasUrl |-> FALSE]
    ELSE IF path = DirNoUrl
    THEN [present |-> TRUE, sections |-> {"core", "remote \"origin\""}, url |-> <<>>, hasUrl |-> FALSE]
    ELSE [present |-> FALSE, sections |-> {}, url |-> <<>>, hasUrl |-> FALSE]

\* get_remote_from_git_config: the origin url, None (the empty text) without
\* the file or the section; config[...]['url'] raises KeyError without the option.
get_remote_from_git_config(path) ==
    LET c == GitConfig(path) IN
    IF c.present /\ "remote \"origin\"" \in c.sections
    THEN IF c.hasUrl THEN [raised |-> FALSE, value |-> c.url]
                     ELSE [raised |-> TRUE, value |-> <<>>]
    ELSE [raised |-> FALSE, value |-> <<>>]

----
\* Projects

\* The values --remote takes in the model: user/repo, user/repo@branch, a full
\* url, and the local directories above.
RemoteShort == <<"org", "/", "repo">>
RemoteBranch == <<"org", "/", "repo", "@", "dev">>
RemoteUrl == <<"https://git.example.org/", "team", "/", "app", ".git">>
RemoteArgs == {RemoteShort, RemoteBranch, RemoteUrl, DirOrigin, DirNoOrigin, DirPlain, DirNoUrl}

complete_config_keys == <<"DISCORD_WEBHOOK">>

\* complete_git_keys / complete_projects / complete_pages after their api.get:
\* [d['name'] for d in keys] if keys else []
names_of(body) == body.items

\* project_create from `if key: data['key'] = key` on.
project_create_send(l) ==
    LET data == IF ~Falsy(l.key) THEN Put(l.data, "key", l.key) ELSE l.data IN
    IF ~Falsy(l.name)
    THEN Goto("print", [l EXCEPT !.data = data], Req(Create(<<"project">>, data)))
    ELSE Return([l EXCEPT !.data = data])

\* project_create without its `if not remote:` check.
project_create_key_unchecked(l) ==
    LET l1 == [l EXCEPT !.data = Put(l.data, "remote", l.remote)] IN
    IF Falsy(l1.key)
    THEN IF Len(complete_config_keys) > 0
         THEN project_create_send(l1)
         ELSE Goto("keys", l1, Req(Get(<<"git-key">>)))
    ELSE project_create_send(l1)

\* project_create from `if not remote: print("no remote found")` on.
project_create_key(l) ==
    IF Empty(l.remote)
    THEN Fail("no remote found", l)
    ELSE LET l1 == [l EXCEPT !.data = Put(l.data, "remote", l.remote)] IN
         IF Falsy(l1.key)
         THEN IF Len(complete_config_keys) > 0
              THEN project_create_send(l1)
              ELSE Goto("keys", l1, Req(Get(<<"git-key">>)))
         ELSE project_create_send(l1)

\* project_create from `if not name: print("Project Name cannot be empty")` on.
project_create_remote(l) ==
    IF Falsy(l.name)
    THEN Fail("Project Name cannot be empty", l)
    ELSE LET l1 == [l EXCEPT !.data = Put(l.data, "name", l.name)] IN
         IF Empty(l1.remote)
         THEN Goto("remote", l1, Ask("Enter Git Remote", {<<>>, RemoteShort}, "exit"))
         ELSE IF isdir(l1.remote)
              THEN LET r == get_remote_from_git_config(l1.remote) IN
                   IF r.raised THEN Exit(1, l1)
                   ELSE project_create_key([l1 EXCEPT !.remote = r.value])
              ELSE project_create_key(l1)

project_create ==
    /\ cmd = "project_create" /\ io = NoIO
    /\ pc \in {"start", "name", "remote", "keys", "key"}
    /\ CASE pc = "start" ->
              IF Falsy(loc.name)
              THEN Goto("name", loc, Ask("Enter a Project Name", {"", "myapp"}, "exit"))
              ELSE project_create_remote(loc)
         [] pc = "name" -> project_create_remote([loc EXCEPT !.name = ans])
         [] pc = "remote" -> project_create_key([loc EXCEPT !.remote = ans])
         [] pc = "keys" -> Select("key", loc, "Select a Git Key", names_of(ret), "exit")
         [] pc = "key" -> project_create_send([loc EXCEPT !.key = ans])

project_update ==
    /\ At("project_update", "start")
    /\ IF Empty(loc.remote) /\ Falsy(loc.key)
       THEN Fail("nothing to update, check --help for more info", loc)
       ELSE LET r == IF ~Empty(loc.remote) /\ isdir(loc.remote)
                     THEN get_remote_from_git_config(loc.remote)
                     ELSE [raised |-> FALSE, value |-> loc.remote]
                d1 == IF ~Empty(r.value) THEN Put(loc.data, "remote", r.value) ELSE loc.data
                d2 == IF ~Falsy(loc.key) THEN Put(d1, "key", loc.key) ELSE d1
            IN IF r.raised
               THEN Exit(1, loc)
               ELSE Goto("print", [loc EXCEPT !.remote = r.value, !.data = d2],
                         Req(Update(<<"project", loc.name>>, d2)))

project_delete ==
    /\ cmd = "project_delete" /\ io = NoIO
    /\ pc \in {"start", "projects", "name"}
    /\ LET del(l) == IF ~Falsy(l.name)
                     THEN Goto("print", l, Req(Delete(<<"project", l.name>>)))
                     ELSE Return(l)
       IN CASE pc = "start" ->
                 IF Falsy(loc.name)
                 THEN Goto("projects", loc, Req(Get(<<"project">>)))
                 ELSE del(loc)
            [] pc = "projects" ->
                 Select("name", loc, "Select a Project for removal", names_of(ret), "none")
            [] pc = "name" -> del([loc EXCEPT !.name = ans])

----
\* Git keys

\* A key file given with --import: its name and what read() returns.
KeyFile == [given |-> TRUE, name |-> <<"id", " ", "rsa">>, content |-> "PEM"]
NoKeyFile == [given |-> FALSE, name |-> <<>>, content |-> None]

\* git_key_create from `data = {...}` on.
git_key_create_send(l) ==
    LET data == [name |-> l.name, auth_type |-> l.auth_type, auth_key |-> l.auth_key] IN
    IF l.auth_type = "pat" /\ Falsy(data.auth_key)
    THEN Fail("authentication method pat requires a value for --key", l)
    ELSE Goto("print", l, Req(Create(<<"git-key">>, data)))

\* git_key_create from `if not auth_type:` on.
git_key_create_type(l) ==
    IF Falsy(l.auth_type)
    THEN Goto("type", l, Ask("Authentication Method", {"ssh", "pat"}, "exit"))
    ELSE git_key_create_send(l)

git_key_create ==
    /\ cmd = "git_key_create" /\ io = NoIO
    /\ pc \in {"start", "name", "type"}
    /\ CASE pc = "start" ->
              LET l1 == IF loc.key_file.given
                        THEN [loc EXCEPT !.auth_key = loc.key_file.content,
                                         !.auth_type = "ssh",
                                         !.name = IF Empty(loc.name) THEN loc.key_file.name
                                                  ELSE loc.name]
                        ELSE loc
              IN IF Empty(l1.name)
                 THEN Goto("name", l1, Ask("Key Name", {<<>>, <<"cwd", "-key">>, <<"my", " ", "key">>}, "exit"))
                 ELSE git_key_create_type(l1)
         [] pc = "name" -> git_key_create_type([loc EXCEPT !.name = ans])
         [] pc = "type" -> git_key_create_send([loc EXCEPT !.auth_type = ans])

git_key_delete ==
    /\ cmd = "git_key_delete" /\ io = NoIO
    /\ pc \in {"start", "keys", "name"}
    /\ LET del(l) == IF ~Falsy(l.name)
                     THEN Goto("print", l, Req(Delete(<<"git-key", l.name>>)))
                     ELSE Return(l)
       IN CASE pc = "start" ->
                 IF Falsy(loc.name)
                 THEN Goto("keys", loc, Req(Get(<<"git-key">>)))
                 ELSE del(loc)
            [] pc = "keys" -> Select("name", loc, "Select Key", names_of(ret), "none")
            [] pc = "name" -> del([loc EXCEPT !.name = ans])

----
\* Environments and variables

\* The characters of env keys and values, and str.upper on them.
Chars == {"p", "P", "1"}
UpperChar(c) == IF c = "p" THEN "P" ELSE c
upper(str) == [i \in 1..Len(str) |-> UpperChar(str[i])]

\* env_create from `if not branch:` on and from `if environment and branch:` on.
env_create_send(l) ==
    IF ~Falsy(l.environment) /\ ~Falsy(l.branch)
    THEN Goto("print", l, Req(Create(<<"env", l.project>>,
                                     [name |-> l.environment, branch |-> l.branch])))
    ELSE Return(l)

env_create_branch(l) ==
    IF Falsy(l.branch)
    THEN Goto("branch", l, Ask("Enter corresponding Branch", {"", "main"}, "none"))
    ELSE env_create_send(l)

env_create ==
    /\ cmd = "env_create" /\ io = NoIO
    /\ pc \in {"start", "environment", "branch"}
    /\ CASE pc = "start" ->
              IF Falsy(loc.environment)
              THEN Goto("environment", loc, Ask("Enter Environment Name", {"", "dev"}, "none"))
              ELSE env_create_branch(loc)
         [] pc = "environment" -> env_create_branch([loc EXCEPT !.environment = ans])
         [] pc = "branch" -> env_create_send([loc EXCEPT !.branch = ans])

env_delete ==
    /\ cmd = "env_delete" /\ io = NoIO
    /\ pc \in {"start", "envs", "environment"}
    /\ LET del(l) == IF ~Falsy(l.environment)
                     THEN Goto("print", l, Req(Delete(<<"env", l.project, l.environment>>)))
                     ELSE Return(l)
       IN CASE pc = "start" ->
                 IF Falsy(loc.environment)
                 THEN Goto("envs", loc, Req(Get(<<"env", loc.project>>)))
                 ELSE del(loc)
            [] pc = "envs" ->
                 Select("environment", loc, "Select an Environment for removal", ret.items, "none")
            [] pc = "environment" -> del([loc EXCEPT !.environment = ans])

\* env_set without key.upper().
env_set_verbatim ==
    /\ At("env_set", "start")
    /\ Goto("print", loc,
            Req(Update(<<"env", loc.project, loc.environment>>,
                       [key |-> loc.key, value |-> loc.value])))

env_set ==
    /\ At("env_set", "start")
    /\ LET key == upper(loc.key) IN
       Goto("print", [loc EXCEPT !.key = key],
            Req(Update(<<"env", loc.project, loc.environment>>,
                       [key |-> key, value |-> loc.value])))

\* The position of key k in the ordered mapping d (0 when absent).
IndexOf(d, k) ==
    IF \E i \in 1..Len(d) : d[i].key = k
    THEN CHOOSE i \in 1..Len(d) : d[i].key = k
    ELSE 0

\* dotenv_values(stream): the bindings of the file in order, put into an ordered
\* dict one by one: a repeated key keeps its first position and takes the later value.
RECURSIVE dotenv_values(_)
dotenv_values(bindings) ==
    IF bindings = <<>> THEN <<>>
    ELSE LET n == Len(bindings)
             d == dotenv_values(SubSeq(bindings, 1, n - 1))
             b == bindings[n]
             i == IndexOf(d, b.key)
         IN IF i = 0 THEN Append(d, b) ELSE [d EXCEPT ![i] = b]

\* env_import's loop upper-casing the key as env_set does.
env_import_loop_upper(l) ==
    IF l.i <= Len(l.imported_env)
    THEN Goto("set", l, Req(Update(<<"env", l.project, l.environment>>,
                                   [key |-> upper(l.imported_env[l.i].key),
                                    value |-> l.imported_env[l.i].value])))
    ELSE Return(l)

\* env_import's loop, at item i of the parsed mapping.
env_import_loop(l) ==
    IF l.i <= Len(l.imported_env)
    THEN Goto("set", l, Req(Update(<<"env", l.project, l.environment>>,
                                   [key |-> l.imported_env[l.i].key,
                                    value |-> l.imported_env[l.i].value])))
    ELSE Return(l)

env_import ==
    /\ cmd = "env_import" /\ io = NoIO
    /\ pc \in {"start", "set"}
    /\ CASE pc = "start" ->
              env_import_loop([loc EXCEPT !.imported_env = dotenv_values(loc.file), !.i = 1])
         [] pc = "set" -> env_import_loop([loc EXCEPT !.i = loc.i + 1])

----
\* Pages

\* page_create's loop taking the redirects last to first.
page_create_loop_reversed(l) ==
    IF l.i <= Len(l.redirects)
    THEN Goto("redirect", l, Req(Create(<<"redirect">>,
                                        [source |-> l.redirects[Len(l.redirects) + 1 - l.i],
                                         destination |-> l.fqdn])))
    ELSE Return(l)

\* page_create's loop, at redirect i.
page_create_loop(l) ==
    IF l.i <= Len(l.redirects)
    THEN Goto("redirect", l, Req(Create(<<"redirect">>,
                                        [source |-> l.redirects[l.i], destination |-> l.fqdn])))
    ELSE Return(l)

page_create ==
    /\ cmd = "page_create" /\ io = NoIO
    /\ pc \in {"start", "page", "redirect"}
    /\ CASE pc = "start" -> Goto("page", loc, Req(Create(<<"page">>, [fqdn |-> loc.fqdn])))
         [] pc = "page" -> page_create_loop([loc EXCEPT !.i = 1])
         [] pc = "redirect" -> page_create_loop([loc EXCEPT !.i = loc.i + 1])

page_delete ==
    /\ cmd = "page_delete" /\ io = NoIO
    /\ pc \in {"start", "pages", "fqdn"}
    /\ LET del(l) == IF ~Falsy(l.fqdn)
                     THEN Goto("print", l, Req(Delete(<<"page", l.fqdn>>)))
                     ELSE Return(l)
       IN CASE pc = "start" ->
                 IF Falsy(loc.fqdn)
                 THEN Goto("pages", loc, Req(Get(<<"page">>)))
                 ELSE del(loc)
            [] pc = "pages" ->
                 Select("fqdn", loc, "Select a Page for removal", names_of(ret), "none")
            [] pc = "fqdn" -> del([loc EXCEPT !.fqdn = ans])

\* page_deploy launching the url before the upload.
page_deploy_launch_first ==
    /\ cmd = "page_deploy" /\ io = NoIO
    /\ pc \in {"start", "uploaded"}
    /\ CASE pc = "start" ->
              IF isdir(loc.path)
              THEN Fail("can't directory yet, please tar cvf payload.tar folder/", loc)
              ELSE IF ~isfile(loc.path)
              THEN Exit(1, loc)
              ELSE LET call == Upload(<<"page", loc.fqdn, "deploy">>, loc.path) IN
                   /\ launched' = loc.view
                   /\ pc' = "uploaded" /\ io' = Req(call) /\ issued' = Append(issued, call)
                   /\ UNCHANGED <<cliconfig, disk, runs, cmd, args, remoteNames, loc, ans, ret, wire, lines,
                                  prompts, err, exitCode>>
         [] pc = "uploaded" -> Return(loc)

\* open(path, 'rb') raises FileNotFoundError for a path that does not exist.
page_deploy ==
    /\ cmd = "page_deploy" /\ io = NoIO
    /\ pc \in {"start", "uploaded"}
    /\ CASE pc = "start" ->
              IF isdir(loc.path)
              THEN Fail("can't directory yet, please tar cvf payload.tar folder/", loc)
              ELSE IF ~isfile(loc.path)
              THEN Exit(1, loc)
              ELSE Goto("uploaded", loc, Req(Upload(<<"page", loc.fqdn, "deploy">>, loc.path)))
         [] pc = "uploaded" ->
              /\ launched' = (launched \/ loc.view)
              /\ pc' = "done" /\ io' = NoIO /\ exitCode' = 0
              /\ UNCHANGED <<cliconfig, disk, runs, cmd, args, remoteNames, loc, ans, ret, issued, wire, lines,
                             prompts, err>>

----
\* class Config and the cli group

DEFAULT_CONFIG == [API_URL |-> "http://localhost:8001", API_KEY |-> "root"]

\* The configuration file: whether it exists and the mapping it holds.  Keys
\* and values are strings, which yaml.dump and yaml.load hand back unchanged.
NoFile == [exists |-> FALSE, content |-> EmptyDict]
\* Config.dump: the file is rewritten whole from the mapping.
dump(config) == [exists |-> TRUE, content |-> config]
\* Config.load: the mapping the file holds.
load(file) == file.content

\* Config.__init__ (cliconfig = Config(CONFIG_DIR)): without the directory it
\* is made and the defaults are written; with it the file is loaded, and
\* open() raises FileNotFoundError when the file is not there.
Config_init ==
    /\ pc = "boot"
    /\ IF ~disk.dir
       THEN /\ cliconfig' = DEFAULT_CONFIG
            /\ disk' = [dir |-> TRUE, file |-> dump(DEFAULT_CONFIG)]
            /\ pc' = "start" /\ exitCode' = exitCode
       ELSE IF disk.file.exists
       THEN /\ cliconfig' = load(disk.file)
            /\ disk' = disk
            /\ pc' = "start" /\ exitCode' = exitCode
       ELSE /\ cliconfig' = cliconfig
            /\ disk' = disk
            /\ pc' = "exit" /\ exitCode' = 1
    /\ UNCHANGED <<runs, cmd, args, remoteNames, loc, io, ans, ret, issued, wire, lines,
                   prompts, launched, err>>

\* cli_config_set: Config.__setitem__ (config[key] = value; dump()), then print.
cli_config_set ==
    /\ At("cli_config_set", "start")
    /\ cliconfig' = Put(cliconfig, loc.key, loc.value)
    /\ disk' = [disk EXCEPT !.file = dump(Put(cliconfig, loc.key, loc.value))]
    /\ pc' = "done" /\ exitCode' = 0
    /\ UNCHANGED <<runs, cmd, args, remoteNames, loc, io, ans, ret, issued, wire, lines,
                   prompts, launched, err>>

\* What `cli set` is given in the model.
ConfigKeys == {"API_URL", "API_KEY", "EDITOR"}
ConfigValues == {"https://ccd.example.org", "s3cret"}
CliSetArgs == {[key |-> k, value |-> v] : k \in ConfigKeys, v \in ConfigValues}

\* The configuration a first start may find: no directory, the directory
\* without the file, or a file written by an earlier run.
InitialDisks ==
    {[dir |-> FALSE, file |-> NoFile], [dir |-> TRUE, file |-> NoFile]}
        \cup {[dir |-> TRUE, file |-> dump(c)] :
                c \in {DEFAULT_CONFIG, Put(DEFAULT_CONFIG, "API_KEY", "s3cret")}}

\* The user starts `cli set` again after the process has ended: a new process,
\* the disk as the last one left it.
cli_again ==
    /\ cmd = "cli_config_set" /\ pc \in {"done", "exit"}
    /\ runs < MaxRuns
    /\ runs' = runs + 1
    /\ \E a \in CliSetArgs : args' = a /\ loc' = a
    /\ pc' = "boot"
    /\ exitCode' = Running
    /\ cliconfig' = EmptyDict
    /\ UNCHANGED <<disk, cmd, remoteNames, io, ans, ret, issued, wire, lines, prompts,
                   launched, err>>

----
\* The invocations of the model: a command and its parsed arguments.

RemoteNameAt == <<"n1", "n2", "n3", "n4">>
RemoteLists == {[i \in 1..k |-> RemoteNameAt[i]] : k \in 0..MaxRemote}

EnvKeys == SeqsOf(Chars, 1, MaxKeyLen)
EnvValues == {<<"1">>, <<"p">>}
\* The bindings an env file may hold, and the files.
FileBindings == {[key |-> k, value |-> v] : k \in {<<"p">>, <<"P">>, <<"p", "1">>}, v \in EnvValues}
EnvFiles == SeqsOf(FileBindings, 0, MaxFileLines)

Invocations ==
    {[cmd |-> "git_key_create", lists |-> {<<>>},
      args |-> [name |-> n, auth_type |-> t, auth_key |-> k, key_file |-> f]] :
        n \in {<<>>, <<"deploy">>, <<"my", " ", "key">>}, t \in {None, "ssh", "pat"},
        k \in {None, "secret"}, f \in {NoKeyFile, KeyFile}}
    \cup {[cmd |-> "git_key_delete", lists |-> RemoteLists, args |-> [name |-> n]] :
        n \in {None, "n1"}}
    \cup {[cmd |-> "project_create", lists |-> RemoteLists,
           args |-> [name |-> n, remote |-> r, key |-> k, data |-> EmptyDict]] :
        n \in {None, "myapp"}, r \in RemoteArgs \cup {<<>>}, k \in {None, "n1"}}
    \cup {[cmd |-> "project_update", lists |-> {<<>>},
           args |-> [name |-> "myapp", remote |-> r, key |-> k, data |-> EmptyDict]] :
        r \in RemoteArgs \cup {<<>>}, k \in {None, "n1"}}
    \cup {[cmd |-> "project_delete", lists |-> RemoteLists, args |-> [name |-> n]] :
        n \in {None, "myapp"}}
    \cup {[cmd |-> "env_create", lists |-> {<<>>},
           args |-> [project |-> "proj", environment |-> e, branch |-> b]] :
        e \in {None, "dev"}, b \in {None, "main"}}
    \cup {[cmd |-> "env_delete", lists |-> RemoteLists,
           args |-> [project |-> "proj", environment |-> e]] : e \in {None, "dev"}}
    \cup {[cmd |-> "env_set", lists |-> {<<>>},
           args |-> [project |-> "proj", environment |-> "dev", key |-> k, value |-> v]] :
        k \in EnvKeys, v \in EnvValues}
    \cup {[cmd |-> "env_import", lists |-> {<<>>},
           args |-> [project |-> "proj", environment |-> "dev", file |-> f,
                     imported_env |-> <<>>, i |-> 0]] : f \in EnvFiles}
    \cup {[cmd |-> "page_create", lists |-> {<<>>},
           args |-> [fqdn |-> "a.io", redirects |-> r, i |-> 0]] :
        r \in SeqsOf({"b.io", "c.io"}, 0, MaxRedirects)}
    \cup {[cmd |-> "page_delete", lists |-> RemoteLists, args |-> [fqdn |-> n]] :
        n \in {None, "a.io"}}
    \cup {[cmd |-> "page_deploy", lists |-> {<<>>},
           args |-> [fqdn |-> "a.io", path |-> p, view |-> v]] :
        p \in {DirDist, FileSite, Missing}, v \in BOOLEAN}

\* A handler of the service commands is entered with the configuration loaded.
InitCommand ==
    \E inv \in Invocations :
        /\ cmd = inv.cmd
        /\ args = inv.args
        /\ loc = inv.args
        /\ remoteNames \in inv.lists
        /\ pc = "start"
        /\ cliconfig = DEFAULT_CONFIG
        /\ disk = [dir |-> TRUE, file |-> dump(DEFAULT_CONFIG)]
        /\ runs = 1
        /\ io = NoIO
        /\ ans = None
        /\ ret = [kind |-> "none", items |-> <<>>]
        /\ issued = <<>>
        /\ wire = <<>>
        /\ lines = <<>>
        /\ prompts = <<>>
        /\ launched = FALSE
        /\ err = ""
        /\ exitCode = Running

\* `cli set` is followed from the start of the process, before Config is built.
InitCli ==
    /\ cmd = "cli_config_set"
    /\ \E a \in CliSetArgs : args = a /\ loc = a
    /\ remoteNames = <<>>
    /\ pc = "boot"
    /\ cliconfig = EmptyDict
    /\ disk \in InitialDisks
    /\ runs = 1
    /\ io = NoIO
    /\ ans = None
    /\ ret = [kind |-> "none", items |-> <<>>]
    /\ issued = <<>>
    /\ wire = <<>>
    /\ lines = <<>>
    /\ prompts = <<>>
    /\ launched = FALSE
    /\ err = ""
    /\ exitCode = Running

Init == InitCommand \/ InitCli

Next ==
    \/ request
    \/ PromptAnswer
    \/ PromptCancel
    \/ Printed
    \/ git_key_create
    \/ git_key_delete
    \/ project_create
    \/ project_update
    \/ project_delete
    \/ env_create
    \/ env_delete
    \/ env_set
    \/ env_import
    \/ page_create
    \/ page_delete
    \/ page_deploy
    \/ Config_init
    \/ cli_config_set
    \/ cli_again

Spec == Init /\ [][Next]_vars

----
\* What the properties below speak of.

\* The process has ended.
Ended == pc \in {"done", "exit"}
\* The response is a transport exception or carries a status >= 400.
Failed(resp) == resp.kind = "exception" \/ resp.status >= 400
\* The call changes the service's state.
Mutating(call) == call.method \in {"POST", "PUT", "DELETE"}
\* The call creates or updates a project.
ProjectWrite(call) == call.path[1] = "project" /\ call.method \in {"POST", "PUT"}
\* Some prompt of the invocation was cancelled by the user.
Cancelled == \E j \in 1..Len(prompts) : prompts[j].cancelled
\* The prompt with this message was shown.
Shown(message) == \E j \in 1..Len(prompts) : prompts[j].message = message

\* C1: for a response with status >= 400 whose body has a `detail`, a list of k
\* validation errors is printed as exactly k lines `<loc field>: <msg>`, a bare
\* string as exactly one line, and the process exits with code 1.
C1_ErrorDetailLines ==
    \A i \in 1..Len(wire) :
        LET r == wire[i].resp IN
        (r.kind = "http" /\ r.status >= 400 /\ r.body.detail.t # "absent") =>
            /\ exitCode = 1
            /\ r.body.detail.t = "list" =>
                  /\ Len(lines) = Len(r.body.detail.items)
                  /\ \A j \in 1..Len(lines) :
                        /\ lines[j].kind = "field"
                        /\ lines[j].field = r.body.detail.items[j].loc[2]
                        /\ lines[j].msg = r.body.detail.items[j].msg
            /\ r.body.detail.t = "str" => Len(lines) = 1

\* C2: every logical call is attempted on the network exactly once and never
\* re-issued; a call that ends in a transport exception or a status >= 400 is
\* the last attempt of the invocation, which is then ended with exit code 1;
\* a call with status < 400 hands the decoded body back to the handler.
C2_OneAttemptThenFatal ==
    /\ Len(issued) = Len(wire) + (IF io.kind = "request" THEN 1 ELSE 0)
    /\ \A i \in 1..Len(wire) :
          /\ wire[i].call = issued[i]
          /\ Failed(wire[i].resp) =>
                i = Len(wire) /\ pc = "exit" /\ exitCode = 1 /\ io = NoIO
    /\ (wire # <<>> /\ ~Failed(wire[Len(wire)].resp)) => ret = wire[Len(wire)].resp.body
    /\ exitCode = 0 => pc = "done" /\ \A i \in 1..Len(wire) : ~Failed(wire[i].resp)

\* A two-call invocation whose second call failed.
C2_Witness ==
    /\ Len(wire) = 2 /\ ~Failed(wire[1].resp) /\ Failed(wire[2].resp)
    /\ pc = "exit" /\ exitCode = 1

\* A remote spec of the form user/repo or user/repo@branch.
IsShortSpec(r) ==
    \/ Len(r) = 3 /\ r[2] = "/"
    \/ Len(r) = 5 /\ r[2] = "/" /\ r[4] = "@"
\* The canonical form the specification gives for it.
Canonical(r) == <<"git@github.com:", r[1], "/", r[3], ".git">>

\* C3: in project create and project update a --remote of the form user/repo
\* or user/repo@branch that is no local directory is sent as
\* git@github.com:user/repo.git, with the embedded branch as the payload's branch.
C3_RemoteSpecCanonical ==
    (/\ cmd \in {"project_create", "project_update"}
     /\ IsShortSpec(args.remote)
     /\ ~isdir(args.remote)) =>
        \A i \in 1..Len(issued) :
            ProjectWrite(issued[i]) =>
                /\ "remote" \in DOMAIN issued[i].data
                /\ issued[i].data.remote = Canonical(args.remote)
                /\ Len(args.remote) = 5 =>
                      /\ "branch" \in DOMAIN issued[i].data
                      /\ issued[i].data.branch = args.remote[5]

\* The directory's .git/config has a [remote "origin"] section.
HasOrigin(path) == GitConfig(path).present /\ "remote \"origin\"" \in GitConfig(path).sections

\* C4: in project create with --remote naming a local directory, the payload's
\* remote is the url of the directory's [remote "origin"] section unchanged;
\* without that section (or without .git/config) the command reports "no
\* remote found", exits with code 1 and has issued no network call at all.
C4_CreateFromDirectory ==
    (cmd = "project_create" /\ ~Empty(args.remote) /\ isdir(args.remote)) =>
        /\ HasOrigin(args.remote) =>
              \A i \in 1..Len(issued) :
                  /\ issued[i] = Create(<<"project">>, issued[i].data)
                  /\ issued[i].data.remote = GitConfig(args.remote).url
                  /\ issued[i].data.remote # <<>>
        /\ ~HasOrigin(args.remote) =>
              /\ issued = <<>> /\ wire = <<>>
              /\ ~Shown("Select a Git Key")
              /\ Ended => exitCode = 1
              /\ (Ended /\ ~Falsy(loc.name)) => err = "no remote found"

\* project create for a directory without an origin has given up.
C4_Witness ==
    /\ cmd = "project_create" /\ args.remote = DirNoOrigin
    /\ pc = "exit" /\ exitCode = 1 /\ err = "no remote found" /\ issued = <<>>

\* C5: in project update, a --remote from which no remote can be determined (a
\* local directory without an origin url) makes the command fail with a user
\* error before any network call, with or without --key.
C5_UpdateWithoutRemoteFails ==
    (/\ cmd = "project_update"
     /\ ~Empty(args.remote) /\ isdir(args.remote)
     /\ ~(HasOrigin(args.remote) /\ GitConfig(args.remote).hasUrl)) =>
        /\ issued = <<>>
        /\ Ended => exitCode = 1

\* C6: in project create without --key, the key prompt is shown exactly when
\* the service lists at least one git key, and the chosen name is then sent
\* as `key`; with no key listed the payload has no `key`.
C6_KeyPromptFollowsRemoteKeys ==
    (cmd = "project_create" /\ Falsy(args.key)) =>
        \A i \in 1..Len(issued) :
            ProjectWrite(issued[i]) =>
                /\ Shown("Select a Git Key") <=> remoteNames # <<>>
                /\ remoteNames = <<>> => "key" \notin DOMAIN issued[i].data
                /\ remoteNames # <<>> => "key" \in DOMAIN issued[i].data

\* The keys of an env file, and where each occurs first and last.
FileKeys(file) == {file[i].key : i \in 1..Len(file)}
FirstAt(file, k) == CHOOSE i \in 1..Len(file) :
                        file[i].key = k /\ \A j \in 1..(i - 1) : file[j].key # k
LastAt(file, k) == CHOOSE i \in 1..Len(file) :
                       file[i].key = k /\ \A j \in (i + 1)..Len(file) : file[j].key # k

\* C7: env import of a file with N distinct keys, all calls succeeding, issues
\* exactly N calls, each a PUT to env/<project>/<environment> with {key, value}
\* for a distinct key of the file in the file's letter case, with the value of
\* the key's last binding, in the order the keys first appear; nothing else.
C7_ImportOnePutPerKey ==
    cmd = "env_import" =>
        /\ \A i \in 1..Len(issued) :
              /\ issued[i] = Update(<<"env", args.project, args.environment>>,
                                    [key |-> issued[i].data.key, value |-> issued[i].data.value])
              /\ issued[i].data.key \in FileKeys(args.file)
              /\ issued[i].data.value = args.file[LastAt(args.file, issued[i].data.key)].value
              /\ \A j \in 1..(i - 1) :
                    FirstAt(args.file, issued[j].data.key) < FirstAt(args.file, issued[i].data.key)
        /\ pc = "done" =>
              /\ Len(wire) = Cardinality(FileKeys(args.file))
              /\ Len(issued) = Len(wire)

\* A three-line file with a repeated key and keys that differ only in case.
C7_Witness ==
    /\ cmd = "env_import" /\ pc = "done"
    /\ Len(args.file) = 3 /\ Len(wire) = 2
    /\ wire[1].call.data.key = <<"p">> /\ wire[2].call.data.key = <<"P">>
    /\ args.file[1].value # wire[1].call.data.value

\* k is a written in upper case: the letters of a in capitals, the rest as in a.
IsUpperCaseOf(k, a) ==
    /\ Len(k) = Len(a)
    /\ \A i \in 1..Len(a) : k[i] = (IF a[i] = "p" THEN "P" ELSE a[i])

\* C8: env set issues exactly one call, a PUT to env/<project>/<environment>
\* with {key: the key in upper case, value: the value unchanged}, so that keys
\* differing only in letter case give the same payload.
C8_SetUpperCasesKey ==
    cmd = "env_set" =>
        /\ Len(issued) <= 1
        /\ pc # "start" => Len(issued) = 1
        /\ pc = "done" => Len(wire) = 1
        /\ \A i \in 1..Len(issued) :
              /\ issued[i] = Update(<<"env", args.project, args.environment>>,
                                    [key |-> issued[i].data.key, value |-> args.value])
              /\ IsUpperCaseOf(issued[i].data.key, args.key)

\* env set with a mixed key has sent it in capitals.
C8_Witness ==
    /\ cmd = "env_set" /\ pc = "done"
    /\ args.key = <<"p", "1">> /\ wire[1].call.data.key = <<"P", "1">>
    /\ wire[1].call.data.value = args.value

\* C9: page deploy of a directory exits with code 1 before any call and without
\* launching the browser, with or without --view; of a regular file it issues
\* exactly one upload, and launches the url, if asked, only after it succeeded.
C9_DeployRejectsDirectory ==
    cmd = "page_deploy" =>
        /\ isdir(args.path) =>
              /\ issued = <<>> /\ wire = <<>> /\ ~launched
              /\ pc # "start" => (pc = "exit" /\ exitCode = 1)
        /\ isfile(args.path) =>
              /\ Len(issued) <= 1
              /\ \A i \in 1..Len(issued) :
                    issued[i] = Upload(<<"page", args.fqdn, "deploy">>, args.path)
              /\ pc = "done" => (Len(wire) = 1 /\ launched = args.view)
              /\ launched => (args.view /\ Len(wire) = 1 /\ ~Failed(wire[1].resp))

\* page deploy --view of a directory has given up.
C9_Witness ==
    /\ cmd = "page_deploy" /\ isdir(args.path) /\ args.view
    /\ pc = "exit" /\ exitCode = 1 /\ err # ""

\* C10: a cancelled prompt ends the invocation with a non-zero exit code, and
\* no mutating call (POST, PUT, DELETE) is issued in that invocation.
C10_CancelIsFatal ==
    (Cancelled /\ Ended) =>
        /\ exitCode # 0
        /\ \A i \in 1..Len(issued) : ~Mutating(issued[i])

\* The name with each space replaced by an underscore.
Underscored(name) == [i \in 1..Len(name) |-> IF name[i] = " " THEN "_" ELSE name[i]]

\* C11: git-key create sends as name the supplied name, else the import file's
\* name, else the prompted name, in every case with each space replaced by an
\* underscore; with --import it sends auth_type ssh and the file's content as auth_key.
C11_KeyNameUnderscored ==
    cmd = "git_key_create" =>
        \A i \in 1..Len(issued) :
            /\ issued[i].method = "POST" /\ issued[i].path = <<"git-key">>
            /\ \A j \in 1..Len(issued[i].data.name) : issued[i].data.name[j] # " "
            /\ ~Empty(args.name) => issued[i].data.name = Underscored(args.name)
            /\ (Empty(args.name) /\ args.key_file.given) =>
                  issued[i].data.name = Underscored(args.key_file.name)
            /\ (Empty(args.name) /\ ~args.key_file.given) =>
                  /\ Shown("Key Name")
                  /\ issued[i].data.name = Underscored(loc.name)
            /\ args.key_file.given =>
                  /\ issued[i].data.auth_type = "ssh"
                  /\ issued[i].data.auth_key = args.key_file.content

\* C12: a start-up that finds no configuration file (with or without the
\* directory) creates it with the defaults and succeeds; every `cli set`
\* leaves the file equal to the mapping in memory, with the value set stored
\* under its key and every other key as it was.
C12_ConfigFileFollowsMapping ==
    [][/\ (pc = "boot" /\ pc' # "boot" /\ ~disk.file.exists) =>
              /\ pc' = "start" /\ exitCode' = Running
              /\ cliconfig' = DEFAULT_CONFIG
              /\ disk'.file.exists /\ disk'.file.content = DEFAULT_CONFIG
       /\ (cmd = "cli_config_set" /\ pc = "start" /\ pc' # "start") =>
              /\ pc' = "done" /\ exitCode' = 0
              /\ disk'.file.exists /\ disk'.file.content = cliconfig'
              /\ DOMAIN cliconfig' = DOMAIN cliconfig \cup {args.key}
              /\ cliconfig'[args.key] = args.value
              /\ \A k \in DOMAIN cliconfig \ {args.key} : cliconfig'[k] = cliconfig[k]
              /\ cliconfig = disk.file.content
      ]_vars

\* The i-th call `page create` is to make: the page, then one redirect per
\* --redirects value in the order given.
PageCreateCall(i) ==
    IF i = 1
    THEN Create(<<"page">>, [fqdn |-> args.fqdn])
    ELSE Create(<<"redirect">>, [source |-> args.redirects[i - 1], destination |-> args.fqdn])

\* C13: page create issues POST page, then POST redirect for r1..rn in that
\* order, each only after the call before it succeeded; after a failed call
\* nothing more is issued, and no DELETE is ever issued.
C13_PageThenRedirectsInOrder ==
    cmd = "page_create" =>
        /\ Len(issued) <= 1 + Len(args.redirects)
        /\ \A i \in 1..Len(issued) :
              /\ issued[i] = PageCreateCall(i)
              /\ issued[i].method # "DELETE"
              /\ i > 1 => (Len(wire) >= i - 1 /\ ~Failed(wire[i - 1].resp))
        /\ \A k \in 1..Len(wire) :
              Failed(wire[k].resp) => (Len(issued) = k /\ Ended)
        /\ pc = "done" => Len(wire) = 1 + Len(args.redirects)

\* page create with two redirects whose first redirect call failed.
C13_Witness ==
    /\ cmd = "page_create" /\ Len(args.redirects) = 2
    /\ args.redirects[1] # args.redirects[2]
    /\ Len(wire) = 2 /\ Failed(wire[2].resp) /\ Len(issued) = 2
    /\ pc = "exit"

====
